---- MODULE Spec2Model ----
(***************************************************************************)
(* sun_grid_engine_map.map(): the controller that writes the jobs of a     *)
(* batch into a work directory, submits them (qsub, or a local blocking    *)
(* subprocess when qsub is absent), polls qstat, cancels and resubmits     *)
(* jobs in an error state, collects the pickled results and removes or     *)
(* keeps the work directory.  The batch engine (qsub/qstat/qdel and the    *)
(* worker processes) is the environment of the controller.                 *)
(***************************************************************************)
EXTENDS Integers, Sequences, FiniteSets, TLC

\* ------------------------------------------------------------------ bounds
MaxJobs == 2
MaxResub == 2
\* longest key and longest value of environ
MaxStrLen == 2
\* the clock: start times of invocations are ticks in 0 .. MaxTick
MaxTick == 2
TicksPerSecond == 2

\* --------------------------------------------------------------- constants
\* width of the zero padded index in "q{:s}#{:09d}"
IdxWidth == 9

VARIABLES
    num_jobs,                  \* len(jobs)
    max_num_resubmissions,     \* argument of map
    keep_work_dir,             \* argument of map
    QSUB,                      \* TRUE: submitter = _qsub, FALSE: _local_sub
    environ,                   \* argument of map: one key and its value
    script,                    \* worker_node_script.py: the literals of the environ line
    worker_environ,            \* os.environ of a worker after the script has set it
    pc,                        \* position of the control thread inside map
    pos,                       \* index of the running for-loop (submit, collect)
    num_resubmissions_by_idx,  \* dict idx -> int, keys created lazily
    still_running,
    num_running,
    num_pending,
    jobs_error,                \* list of the records of the last qstat in error
    err_pos,                   \* position in "for job in jobs_error"
    results,                   \* list built by the collection loop
    raised,                    \* the exception that left map, "none" if none
    interrupted,               \* a KeyboardInterrupt was delivered to the thread
    queue,                     \* the engine's records (running and pending)
    next_job_number,           \* the engine's next JB_job_number
    work_dir_exists,
    out_blob,                  \* idx -> state of <idx>.pkl.out
    stderr_file,               \* idx -> state of <idx>.pkl.e
    num_submits,               \* idx -> number of submitter calls issued (history)
    healthy,                   \* idx -> some record of idx was ever not in error (history)
    read_blob                  \* what the collector found at each read (history)

arg_vars == <<num_jobs, max_num_resubmissions, keep_work_dir, QSUB, environ>>
cfg_vars == <<arg_vars, script, worker_environ>>
ctl_vars == <<pc, pos, num_resubmissions_by_idx, still_running, num_running,
              num_pending, jobs_error, err_pos, results, raised, interrupted>>
eng_vars == <<queue, next_job_number, healthy>>
file_vars == <<work_dir_exists, out_blob, stderr_file>>
hist_vars == <<num_submits, read_blob>>
vars == <<cfg_vars, ctl_vars, eng_vars, file_vars, hist_vars>>

\* ------------------------------------------------------------------ values
None == <<"None">>
\* function(jobs[idx]): what the worker of idx pickles into <idx>.pkl.out
return_value(idx) == <<"result", idx>>
error_state_indicator == "E"
Indices == 0 .. (num_jobs - 1)

\* ------------------------------------------------------------- job names
RECURSIVE Pow10(_)
Pow10(n) == IF n = 0 THEN 1 ELSE 10 * Pow10(n - 1)

\* "{:09d}".format(idx): at least IdxWidth digits, more when idx needs them
RECURSIVE NumDigits(_)
NumDigits(n) == IF n < 10 THEN 1 ELSE 1 + NumDigits(n \div 10)

DigitChars == <<"0", "1", "2", "3", "4", "5", "6", "7", "8", "9">>

FormatIdx(idx) ==
    LET w == IF NumDigits(idx) > IdxWidth THEN NumDigits(idx) ELSE IdxWidth
    IN [k \in 1 .. w |-> DigitChars[((idx \div Pow10(w - k)) % 10) + 1]]

\* time.strftime("%Y-%m-%d_%H-%M-%S", time.gmtime()) at clock tick t: the
\* stamp has whole seconds, here the seconds of the first minute of a day
_session_id_from_time_now(t) ==
    LET sec == (t \div TicksPerSecond) % 60
    IN <<"2026-11-05_00-00-", DigitChars[(sec \div 10) + 1], DigitChars[(sec % 10) + 1]>>

\* this invocation of map starts at tick 0
session_id == _session_id_from_time_now(0)

_make_JB_name(sid, idx) == <<"q">> \o sid \o <<"#">> \o FormatIdx(idx)

\* JB_name.split("#")[1]: the text between the first and the second "#"
SplitSecond(s) ==
    LET hashes == {k \in 1 .. Len(s) : s[k] = "#"}
        first == CHOOSE k \in hashes : \A j \in hashes : k <= j
        later == {k \in hashes : k > first}
        stop == IF later = {} THEN Len(s) + 1
                ELSE CHOOSE k \in later : \A j \in later : k <= j
    IN SubSeq(s, first + 1, stop - 1)

\* int(): the value of the first n digits of ds
RECURSIVE ParsePrefix(_, _)
ParsePrefix(ds, n) ==
    IF n = 0 THEN 0
    ELSE 10 * ParsePrefix(ds, n - 1)
         + (CHOOSE v \in 0 .. 9 : DigitChars[v + 1] = ds[n])

ParseInt(ds) == ParsePrefix(ds, Len(ds))

_idx_from_JB_name(JB_name) == ParseInt(SplitSecond(JB_name))

\* the names are made once, before the first submission
JB_names_up_to_MaxJobs == [idx \in 0 .. (MaxJobs - 1) |-> _make_JB_name(session_id, idx)]

\* JB_names_in_session, in the order map builds it
JB_names_in_session == [k \in 1 .. num_jobs |-> JB_names_up_to_MaxJobs[k - 1]]
JB_names_in_session_set == {JB_names_in_session[k] : k \in 1 .. num_jobs}

\* ------------------------------------------------------------ qstat lists
\* the engine lists its records by ascending job number
RECURSIVE ByNumber(_)
ByNumber(S) ==
    IF S = {} THEN <<>>
    ELSE LET r == CHOOSE x \in S : \A y \in S : x.JB_job_number <= y.JB_job_number
         IN <<r>> \o ByNumber(S \ {r})

\* qstat.qstat(): (running, pending)
qstat_lists(q) ==
    [running |-> ByNumber({r \in q : r.list = "running"}),
     pending |-> ByNumber({r \in q : r.list = "pending"})]

\* the filter without its test: every record of the queue is kept
_filter_jobs_by_JB_name_keeps_all(jobs, JB_names_set) == jobs

_filter_jobs_by_JB_name(jobs, JB_names_set) ==
    SelectSeq(jobs, LAMBDA job : job.JB_name \in JB_names_set)

\* error_state_indicator in job["state"]
InState(ind, state) == \E k \in 1 .. Len(state) : state[k] = ind

_extract_error_from_running_pending(jobs_running, jobs_pending, ind) ==
    [running |-> SelectSeq(jobs_running, LAMBDA job : ~InState(ind, job.state)),
     pending |-> SelectSeq(jobs_pending, LAMBDA job : ~InState(ind, job.state)),
     error |-> SelectSeq(jobs_running, LAMBDA job : InState(ind, job.state))
               \o SelectSeq(jobs_pending, LAMBDA job : InState(ind, job.state))]

_jobs_running_pending_error(q, JB_names_set, ind) ==
    LET all == qstat_lists(q)
    IN _extract_error_from_running_pending(
           _filter_jobs_by_JB_name(all.running, JB_names_set),
           _filter_jobs_by_JB_name(all.pending, JB_names_set),
           ind)

\* ------------------------------------------------------ the worker script
\* the characters of keys and values: a letter, the letter n, the double
\* quote, the backslash and the newline
Alphabet == {"a", "n", "\"", "\\", "\n"}
Strings(maxlen) == UNION {[1 .. n -> Alphabet] : n \in 0 .. maxlen}

\* str.encode("unicode_escape").decode() of one character: the backslash is
\* doubled, the newline becomes backslash and n, printable ASCII is copied
unicode_escape_char(c) ==
    CASE c = "\\" -> <<"\\", "\\">>
      [] c = "\n" -> <<"\\", "n">>
      [] OTHER -> <<c>>

RECURSIVE unicode_escape_prefix(_, _)
unicode_escape_prefix(str, n) ==
    IF n = 0 THEN <<>>
    ELSE unicode_escape_prefix(str, n - 1) \o unicode_escape_char(str[n])

unicode_escape(str) == unicode_escape_prefix(str, Len(str))

\* 'os.environ["{key:s}"] = "{value:s}"\n': the two string literals of the
\* line that add_environ gets for one key; the text around them is fixed
_make_worker_node_script(env) ==
    [key |-> <<"\"">> \o unicode_escape(env.key) \o <<"\"">>,
     value |-> <<"\"">> \o unicode_escape(env.value) \o <<"\"">>]

\* The worker's interpreter reads a literal that opens with one double quote,
\* from position k on, acc being what it has read.  ok is FALSE when the
\* text is not exactly one such literal: the quote that closes it is not
\* the last character (a syntax error, or a statement with another value),
\* the line ends inside the literal, or an escape is none of \\ \n \".
RECURSIVE read_literal_from(_, _, _)
read_literal_from(text, k, acc) ==
    CASE k > Len(text) -> [ok |-> FALSE, str |-> <<>>]
      [] text[k] = "\"" -> [ok |-> k = Len(text), str |-> acc]
      [] text[k] = "\n" -> [ok |-> FALSE, str |-> <<>>]
      [] text[k] = "\\" ->
            IF k + 1 > Len(text) THEN [ok |-> FALSE, str |-> <<>>]
            ELSE CASE text[k + 1] = "\\" -> read_literal_from(text, k + 2, Append(acc, "\\"))
                   [] text[k + 1] = "n" -> read_literal_from(text, k + 2, Append(acc, "\n"))
                   [] text[k + 1] = "\"" -> read_literal_from(text, k + 2, Append(acc, "\""))
                   [] OTHER -> [ok |-> FALSE, str |-> <<>>]
      [] OTHER -> read_literal_from(text, k + 1, Append(acc, text[k]))

read_literal(text) ==
    IF Len(text) = 0 \/ text[1] # "\"" THEN [ok |-> FALSE, str |-> <<>>]
    ELSE read_literal_from(text, 2, <<>>)

\* the environ line of the script as the worker executes it
run_environ_line(line) ==
    LET k == read_literal(line.key)
        v == read_literal(line.value)
    IN IF k.ok /\ v.ok
       THEN [ran |-> TRUE, ok |-> TRUE, key |-> k.str, value |-> v.str]
       ELSE [ran |-> TRUE, ok |-> FALSE, key |-> <<>>, value |-> <<>>]

\* -------------------------------------------------------------------- Init
\* map is called with an environ of environs while the engine holds one of queues
InitArgs(environs, queues) ==
    /\ num_jobs \in 0 .. MaxJobs
    /\ max_num_resubmissions \in 0 .. MaxResub
    /\ keep_work_dir \in BOOLEAN
    /\ QSUB \in BOOLEAN
    /\ environ \in environs
    /\ script = [key |-> <<>>, value |-> <<>>]
    /\ worker_environ = [ran |-> FALSE, ok |-> FALSE, key |-> <<>>, value |-> <<>>]
    /\ pc = "makedirs"
    /\ pos = 0
    /\ num_resubmissions_by_idx = <<>>
    /\ still_running = TRUE
    /\ num_running = 0
    /\ num_pending = 0
    /\ jobs_error = <<>>
    /\ err_pos = 1
    /\ results = <<>>
    /\ raised = "none"
    /\ interrupted = FALSE
    /\ queue \in queues
    /\ next_job_number = 1
    /\ work_dir_exists = FALSE
    /\ out_blob = [i \in 0 .. (num_jobs - 1) |-> "absent"]
    /\ stderr_file = [i \in 0 .. (num_jobs - 1) |-> "absent"]
    /\ num_submits = [i \in 0 .. (num_jobs - 1) |-> 0]
    /\ healthy = [i \in 0 .. (num_jobs - 1) |-> FALSE]
    /\ read_blob = <<>>

\* an environ without special characters, and no other user of the engine
Init == InitArgs({[key |-> <<"a">>, value |-> <<"n">>]}, {{}})

\* ----------------------------------------------------------- the engine
qw == <<"q", "w">>
Eqw == <<"E", "q", "w">>
r_state == <<"r">>

\* qsub accepted: a new pending record under a fresh job number.  The engine
\* may hold the job in an error state from the start (state Eqw).
engine_submit(JB_name, idx, state) ==
    /\ queue' = queue \cup {[JB_name |-> JB_name,
                             JB_job_number |-> next_job_number,
                             list |-> "pending",
                             state |-> state,
                             arg |-> idx,
                             owner |-> "session"]}
    /\ next_job_number' = next_job_number + 1
    /\ healthy' = IF state = qw THEN [healthy EXCEPT ![idx] = TRUE] ELSE healthy

\* what a worker process leaves in the work directory when it ends
\*   "ok":     pickle.dumps(return_value) written to <idx>.pkl.out
\*   "crash":  traceback on stderr, no output blob
\*   "killed": stopped while writing the output blob
WorkerOutcomes == {"ok", "crash", "killed"}

blob_after(old, outcome) ==
    CASE outcome = "ok" -> "ok"
      [] outcome = "killed" -> "corrupt"
      [] OTHER -> old

stderr_after(old, outcome) ==
    IF outcome = "crash" THEN "nonzero"
    ELSE IF old = "absent" THEN "empty" ELSE old

\* a pending job without error is started: its stdout and stderr files are opened
EngineStart(r) ==
    /\ r \in queue
    /\ r.owner = "session"
    /\ r.list = "pending"
    /\ r.state = qw
    /\ queue' = (queue \ {r}) \cup {[r EXCEPT !.list = "running", !.state = r_state]}
    /\ stderr_file' = IF work_dir_exists /\ stderr_file[r.arg] = "absent"
                      THEN [stderr_file EXCEPT ![r.arg] = "empty"]
                      ELSE stderr_file
    /\ UNCHANGED <<cfg_vars, ctl_vars, next_job_number, healthy, work_dir_exists,
                   out_blob, hist_vars>>

\* a running job ends and leaves the queue
EngineFinish(r, outcome) ==
    /\ r \in queue
    /\ r.owner = "session"
    /\ r.list = "running"
    /\ queue' = queue \ {r}
    /\ IF work_dir_exists
       THEN /\ out_blob' = [out_blob EXCEPT ![r.arg] = blob_after(@, outcome)]
            /\ stderr_file' = [stderr_file EXCEPT ![r.arg] = stderr_after(@, outcome)]
       ELSE UNCHANGED <<out_blob, stderr_file>>
    /\ UNCHANGED <<cfg_vars, ctl_vars, next_job_number, healthy, work_dir_exists,
                   hist_vars>>

\* the record of a job held in an error state is deleted by somebody else
\* (an operator's qdel) and is gone from the queue
EngineDrop(r) ==
    /\ r \in queue
    /\ r.owner = "session"
    /\ InState(error_state_indicator, r.state)
    /\ queue' = queue \ {r}
    /\ UNCHANGED <<cfg_vars, ctl_vars, next_job_number, healthy, file_vars, hist_vars>>

\* ------------------------------------------------------- the controller
\* A value an action computes once and uses several times is bound with
\* \E x \in {value}, which TLC evaluates once, also inside ENABLED.
\* os.makedirs(work_dir), the worker script and the input blobs
Makedirs(outcome) ==
    /\ pc = "makedirs"
    /\ IF outcome = "ok"
       THEN /\ work_dir_exists' = TRUE
            /\ script' = _make_worker_node_script(environ)
            /\ pc' = "submit"
            /\ UNCHANGED raised
       ELSE /\ pc' = "raised"
            /\ raised' = "FileExistsError"
            /\ UNCHANGED <<work_dir_exists, script>>
    /\ UNCHANGED <<arg_vars, worker_environ, pos, num_resubmissions_by_idx, still_running,
                   num_running, num_pending, jobs_error, err_pos, results,
                   interrupted, eng_vars, out_blob, stderr_file, hist_vars>>

\* _qsub with "except subprocess.CalledProcessError: pass": the failure is dropped
_qsub_drops_failure(JB_name, idx, outcome, state, next_pc) ==
    /\ num_submits' = [num_submits EXCEPT ![idx] = @ + 1]
    /\ pc' = next_pc
    /\ UNCHANGED raised
    /\ IF outcome = "ok"
       THEN engine_submit(JB_name, idx, state)
       ELSE UNCHANGED eng_vars

\* _qsub: subprocess.check_output, CalledProcessError re-raised
_qsub(JB_name, idx, outcome, state, next_pc) ==
    /\ num_submits' = [num_submits EXCEPT ![idx] = @ + 1]
    /\ IF outcome = "ok"
       THEN /\ engine_submit(JB_name, idx, state)
            /\ pc' = next_pc
            /\ UNCHANGED raised
       ELSE /\ pc' = "raised"
            /\ raised' = "CalledProcessError"
            /\ UNCHANGED eng_vars

\* first submission, for JB_name in JB_names_in_session, Queued backend
SubmitQsub(outcome, state) ==
    /\ pc = "submit"
    /\ QSUB
    /\ pos < num_jobs
    /\ \E JB_name \in {JB_names_in_session[pos + 1]} :
       \E idx \in {_idx_from_JB_name(JB_name)} :
           _qsub(JB_name, idx, outcome, state, "submit")
    /\ pos' = pos + 1
    /\ UNCHANGED <<cfg_vars, num_resubmissions_by_idx, still_running, num_running,
                   num_pending, jobs_error, err_pos, results, interrupted,
                   file_vars, read_blob>>

\* _local_sub: the worker runs as a blocking child, stdout and stderr opened "w"
_local_sub(idx, outcome) ==
    /\ num_submits' = [num_submits EXCEPT ![idx] = @ + 1]
    /\ out_blob' = [out_blob EXCEPT ![idx] = blob_after(@, outcome)]
    /\ stderr_file' = [stderr_file EXCEPT ![idx] = stderr_after("empty", outcome)]

\* first submission, Direct backend
SubmitLocal(outcome) ==
    /\ pc = "submit"
    /\ ~QSUB
    /\ pos < num_jobs
    /\ \E JB_name \in {JB_names_in_session[pos + 1]} :
       \E idx \in {_idx_from_JB_name(JB_name)} :
           _local_sub(idx, outcome)
    /\ pos' = pos + 1
    /\ UNCHANGED <<cfg_vars, pc, num_resubmissions_by_idx, still_running,
                   num_running, num_pending, jobs_error, err_pos, results, raised,
                   interrupted, eng_vars, work_dir_exists, read_blob>>

\* "if True:" in place of "if QSUB:": the poll loop also runs after _local_sub
after_submission_always_polls(qsub) == "qstat"

\* "if QSUB:" the poll loop is entered, else collection starts at once
after_submission(qsub) == IF qsub THEN "qstat" ELSE "collect"

\* all jobs are submitted
SubmitDone ==
    /\ pc = "submit"
    /\ pos = num_jobs
    /\ pc' = after_submission(QSUB)
    /\ pos' = 0
    /\ UNCHANGED <<cfg_vars, num_resubmissions_by_idx, still_running, num_running,
                   num_pending, jobs_error, err_pos, results, raised, interrupted,
                   eng_vars, file_vars, hist_vars>>

\* ------------------------------------------------------------ poll loop
\* what a blocking call or a sleep of the control thread can end with
CallOutcomes == {"ok", "Exception", "KeyboardInterrupt"}
SleepOutcomes == {"ok", "KeyboardInterrupt"}

\* the retry loop of _qstat with "except KeyboardInterrupt: raise" left out
_qstat_absorbs_interrupt(at, outcome) ==
    CASE at = "call" /\ outcome = "ok" -> "for_error"
      [] at = "call" -> "qstat_sleep"
      [] OTHER -> "qstat"

\* _qstat: while True / try qstat.qstat / except KeyboardInterrupt: raise /
\* except Exception: time.sleep(1).  at = "call" is the try body, at = "sleep"
\* the time.sleep(1) of the handler; the value is the next position of the thread.
_qstat(at, outcome) ==
    CASE outcome = "KeyboardInterrupt" -> "raised"
      [] at = "call" /\ outcome = "ok" -> "for_error"
      [] at = "call" /\ outcome = "Exception" -> "qstat_sleep"
      [] OTHER -> "qstat"

\* the retry loop of _qdel with a handler that re-raises what __qdel raised
_qdel_reraises(at, outcome) ==
    CASE outcome # "ok" -> "raised"
      [] at = "call" -> "resubmit"
      [] OTHER -> "qdel"

\* _qdel without the loop: a cancel that failed is not repeated
_qdel_gives_up(at, outcome) ==
    CASE outcome = "KeyboardInterrupt" -> "raised"
      [] at = "call" -> "resubmit"
      [] OTHER -> "qdel"

\* _qdel: the same retry loop around __qdel
_qdel(at, outcome) ==
    CASE outcome = "KeyboardInterrupt" -> "raised"
      [] at = "call" /\ outcome = "ok" -> "resubmit"
      [] at = "call" /\ outcome = "Exception" -> "qdel_sleep"
      [] OTHER -> "qdel"

\* an exception leaves map, or the thread goes on at next_pc
Leave(next_pc, outcome) ==
    /\ pc' = next_pc
    /\ raised' = IF next_pc = "raised" THEN outcome ELSE raised
    /\ interrupted' = (interrupted \/ outcome = "KeyboardInterrupt")

\* _jobs_running_pending_error and the counts of one poll cycle
Qstat(outcome) ==
    /\ pc = "qstat"
    /\ Leave(_qstat("call", outcome), outcome)
    /\ IF outcome = "ok"
       THEN \E b \in {_jobs_running_pending_error(
                          queue, JB_names_in_session_set, error_state_indicator)} :
               /\ num_running' = Len(b.running)
               /\ num_pending' = Len(b.pending)
               /\ jobs_error' = b.error
               /\ err_pos' = 1
       ELSE UNCHANGED <<num_running, num_pending, jobs_error, err_pos>>
    /\ UNCHANGED <<cfg_vars, pos, num_resubmissions_by_idx, still_running, results,
                   eng_vars, file_vars, hist_vars>>

\* time.sleep(1) after a failed qstat
QstatSleep(outcome) ==
    /\ pc = "qstat_sleep"
    /\ Leave(_qstat("sleep", outcome), outcome)
    /\ UNCHANGED <<cfg_vars, pos, num_resubmissions_by_idx, still_running,
                   num_running, num_pending, jobs_error, err_pos, results,
                   eng_vars, file_vars, hist_vars>>

\* the counter with "= 0" in both branches: it never leaves 0
count_error_restarts(by_idx, idx) ==
    [k \in DOMAIN by_idx \cup {idx} |-> IF k = idx THEN 0 ELSE by_idx[k]]

\* the counter of one job of jobs_error: created at 0, else incremented
count_error(by_idx, idx) ==
    IF idx \in DOMAIN by_idx
    THEN [by_idx EXCEPT ![idx] = @ + 1]
    ELSE [k \in DOMAIN by_idx \cup {idx} |-> IF k = idx THEN 0 ELSE by_idx[k]]

\* for job in jobs_error: head of the body, up to the call of _qdel
CountError ==
    /\ pc = "for_error"
    /\ err_pos <= Len(jobs_error)
    /\ \E idx \in {_idx_from_JB_name(jobs_error[err_pos].JB_name)} :
           num_resubmissions_by_idx' = count_error(num_resubmissions_by_idx, idx)
    /\ pc' = "qdel"
    /\ UNCHANGED <<cfg_vars, pos, still_running, num_running, num_pending,
                   jobs_error, err_pos, results, raised, interrupted, eng_vars,
                   file_vars, hist_vars>>

\* qdel removes the record of the job number; it fails when it does not find it
Qdel(outcome) ==
    /\ pc = "qdel"
    /\ LET number == jobs_error[err_pos].JB_job_number
           found == {r \in queue : r.JB_job_number = number}
       IN IF outcome = "ok"
          THEN /\ found # {}
               /\ queue' = queue \ found
          ELSE UNCHANGED queue
    /\ Leave(_qdel("call", outcome), outcome)
    /\ UNCHANGED <<cfg_vars, pos, num_resubmissions_by_idx, still_running,
                   num_running, num_pending, jobs_error, err_pos, results,
                   next_job_number, healthy, file_vars, hist_vars>>

\* time.sleep(1) after a failed qdel
QdelSleep(outcome) ==
    /\ pc = "qdel_sleep"
    /\ Leave(_qdel("sleep", outcome), outcome)
    /\ UNCHANGED <<cfg_vars, pos, num_resubmissions_by_idx, still_running,
                   num_running, num_pending, jobs_error, err_pos, results,
                   eng_vars, file_vars, hist_vars>>

\* the test with "<=": one resubmission more than max_num_resubmissions
may_resubmit_at_maximum(by_idx, idx, max) == by_idx[idx] <= max

\* if num_resubmissions_by_idx[idx] < max_num_resubmissions
may_resubmit(by_idx, idx, max) == by_idx[idx] < max

\* a resubmission under a new name: the old one with a retry mark appended
resubmit_JB_name_marks_retry(job) == job.JB_name \o <<"#", "r">>

\* JB_name=job["JB_name"]: the name the record was listed under
resubmit_JB_name(job) == job.JB_name

\* the job is submitted again
Resubmit(outcome, state) ==
    /\ pc = "resubmit"
    /\ \E JB_name \in {resubmit_JB_name(jobs_error[err_pos])} :
       \E idx \in {_idx_from_JB_name(JB_name)} :
          /\ may_resubmit(num_resubmissions_by_idx, idx, max_num_resubmissions)
          /\ _qsub(JB_name, idx, outcome, state, "for_error")
    /\ err_pos' = err_pos + 1
    /\ UNCHANGED <<cfg_vars, pos, num_resubmissions_by_idx, still_running,
                   num_running, num_pending, jobs_error, results, interrupted,
                   file_vars, read_blob>>

\* the counter has reached the maximum: nothing is submitted
Abandon ==
    /\ pc = "resubmit"
    /\ \E idx \in {_idx_from_JB_name(jobs_error[err_pos].JB_name)} :
           ~may_resubmit(num_resubmissions_by_idx, idx, max_num_resubmissions)
    /\ pc' = "for_error"
    /\ err_pos' = err_pos + 1
    /\ UNCHANGED <<cfg_vars, pos, num_resubmissions_by_idx, still_running,
                   num_running, num_pending, jobs_error, results, raised,
                   interrupted, eng_vars, file_vars, hist_vars>>

\* the exit test inverted: still_running = (num_running == 0 and num_pending == 0)
loop_goes_on_inverted(running, pending, error) == running = 0 /\ pending = 0

\* if num_running == 0 and num_pending == 0: still_running = False
loop_goes_on(running, pending, error) == ~(running = 0 /\ pending = 0)

\* after the for loop: the end of one poll cycle, up to time.sleep
EndOfCycle ==
    /\ pc = "for_error"
    /\ err_pos > Len(jobs_error)
    /\ still_running' = loop_goes_on(num_running, num_pending, Len(jobs_error))
    /\ pc' = "sleep"
    /\ UNCHANGED <<cfg_vars, pos, num_resubmissions_by_idx, num_running,
                   num_pending, jobs_error, err_pos, results, raised, interrupted,
                   eng_vars, file_vars, hist_vars>>

\* time.sleep(polling_interval_qstat), then "while still_running"
PollSleep(outcome) ==
    /\ pc = "sleep"
    /\ Leave(CASE outcome = "KeyboardInterrupt" -> "raised"
               [] still_running -> "qstat"
               [] OTHER -> "collect",
             outcome)
    /\ pos' = 0
    /\ UNCHANGED <<cfg_vars, num_resubmissions_by_idx, still_running, num_running,
                   num_pending, jobs_error, err_pos, results, eng_vars, file_vars,
                   hist_vars>>

\* ----------------------------------------------------------- collection
\* open(result_path) and pickle.loads: the result, or the exception
load_result(idx, blob) ==
    CASE blob = "ok" -> [exc |-> "none", value |-> return_value(idx)]
      [] blob = "absent" -> [exc |-> "FileNotFoundError", value |-> None]
      [] OTHER -> [exc |-> "UnpicklingError", value |-> None]

\* the collection loop with results.insert(0, ...) in place of results.append
collect_one_prepends(res, loaded) ==
    CASE loaded.exc = "none" -> [list |-> <<loaded.value>> \o res, exc |-> "none"]
      [] loaded.exc = "FileNotFoundError" -> [list |-> <<None>> \o res, exc |-> "none"]
      [] OTHER -> [list |-> res, exc |-> loaded.exc]

\* try: ... results.append(result) / except FileNotFoundError: results.append(None)
collect_one(res, loaded) ==
    CASE loaded.exc = "none" -> [list |-> Append(res, loaded.value), exc |-> "none"]
      [] loaded.exc = "FileNotFoundError" -> [list |-> Append(res, None), exc |-> "none"]
      [] OTHER -> [list |-> res, exc |-> loaded.exc]

\* for idx, job in enumerate(jobs)
Collect ==
    /\ pc = "collect"
    /\ pos < num_jobs
    /\ \E c \in {collect_one(results, load_result(pos, out_blob[pos]))} :
          /\ results' = c.list
          /\ raised' = c.exc
          /\ pc' = IF c.exc = "none" THEN "collect" ELSE "raised"
    /\ read_blob' = Append(read_blob, out_blob[pos])
    /\ pos' = pos + 1
    /\ UNCHANGED <<cfg_vars, num_resubmissions_by_idx, still_running, num_running,
                   num_pending, jobs_error, err_pos, interrupted, eng_vars,
                   file_vars, num_submits>>

\* _has_non_zero_stderrs with "has_errors = size != 0": the last file decides
_has_non_zero_stderrs_last_only(efiles, n) ==
    IF \E idx \in 0 .. (n - 1) : efiles[idx] = "absent"
    THEN [exc |-> "FileNotFoundError", value |-> FALSE]
    ELSE [exc |-> "none", value |-> n > 0 /\ efiles[n - 1] = "nonzero"]

\* _has_non_zero_stderrs: os.stat of every <idx>.pkl.e
_has_non_zero_stderrs(efiles, n) ==
    IF \E idx \in 0 .. (n - 1) : efiles[idx] = "absent"
    THEN [exc |-> "FileNotFoundError", value |-> FALSE]
    ELSE [exc |-> "none", value |-> \E idx \in 0 .. (n - 1) : efiles[idx] = "nonzero"]

\* the work directory is kept or removed, and map returns
Dispose ==
    /\ pc = "collect"
    /\ pos = num_jobs
    /\ \E has_errors \in {_has_non_zero_stderrs(stderr_file, num_jobs)} :
          IF has_errors.exc # "none"
          THEN /\ pc' = "raised"
               /\ raised' = has_errors.exc
               /\ UNCHANGED file_vars
          ELSE /\ pc' = "done"
               /\ UNCHANGED raised
               /\ IF has_errors.value \/ keep_work_dir
                  THEN UNCHANGED file_vars
                  ELSE /\ work_dir_exists' = FALSE
                       /\ out_blob' = [i \in Indices |-> "absent"]
                       /\ stderr_file' = [i \in Indices |-> "absent"]
    /\ UNCHANGED <<cfg_vars, pos, num_resubmissions_by_idx, still_running,
                   num_running, num_pending, jobs_error, err_pos, results,
                   interrupted, eng_vars, hist_vars>>

\* ------------------------------------------------------------------- Next
Controller ==
    \/ \E o \in {"ok", "FileExistsError"} : Makedirs(o)
    \/ \E o \in {"ok", "CalledProcessError"}, st \in {qw, Eqw} : SubmitQsub(o, st)
    \/ \E o \in WorkerOutcomes : SubmitLocal(o)
    \/ SubmitDone
    \/ \E o \in CallOutcomes : Qstat(o)
    \/ \E o \in SleepOutcomes : QstatSleep(o)
    \/ CountError
    \/ \E o \in CallOutcomes : Qdel(o)
    \/ \E o \in SleepOutcomes : QdelSleep(o)
    \/ \E o \in {"ok", "CalledProcessError"}, st \in {qw, Eqw} : Resubmit(o, st)
    \/ Abandon
    \/ EndOfCycle
    \/ \E o \in SleepOutcomes : PollSleep(o)
    \/ Collect
    \/ Dispose

Engine ==
    \/ \E r \in queue : EngineStart(r)
    \/ \E r \in queue, o \in WorkerOutcomes : EngineFinish(r, o)
    \/ \E r \in queue : EngineDrop(r)

Next == Controller \/ Engine

Spec == Init /\ [][Next]_vars

\* The Queued backend against a controlled engine, as far as the end of the
\* poll loop: keep_work_dir is set as in test_run, submissions are accepted,
\* nobody interrupts, status queries and cancels may fail but succeed in the
\* end, and every job that is not in an error state is started and ends.
InitControlled == Init /\ QSUB /\ keep_work_dir

PollLoop ==
    \/ Makedirs("ok")
    \/ \E st \in {qw, Eqw} : SubmitQsub("ok", st)
    \/ SubmitDone
    \/ \E o \in {"ok", "Exception"} : Qstat(o)
    \/ QstatSleep("ok")
    \/ CountError
    \/ \E o \in {"ok", "Exception"} : Qdel(o)
    \/ QdelSleep("ok")
    \/ \E st \in {qw, Eqw} : Resubmit("ok", st)
    \/ Abandon
    \/ EndOfCycle
    \/ PollSleep("ok")

\* the workers of the controlled engine end without a crash
EngineControlled ==
    \/ \E r \in queue : EngineStart(r)
    \/ \E r \in queue : EngineFinish(r, "ok")

NextControlled == PollLoop \/ EngineControlled

SpecControlled ==
    /\ InitControlled
    /\ [][NextControlled]_vars
    /\ WF_vars(PollLoop)
    /\ SF_vars(Qstat("ok"))
    /\ SF_vars(Qdel("ok"))
    /\ WF_vars(EngineControlled)

\* The worker script alone: map is called with any environ of short keys and
\* values, writes the script, and a worker executes its environ line.
InitEscape ==
    /\ InitArgs([key : Strings(MaxStrLen), value : Strings(MaxStrLen)], {{}})
    /\ num_jobs = 1
    /\ max_num_resubmissions = 0
    /\ keep_work_dir
    /\ ~QSUB

\* the worker process executes the environ line of the script
RunScript ==
    /\ work_dir_exists
    /\ ~worker_environ.ran
    /\ worker_environ' = run_environ_line(script)
    /\ UNCHANGED <<arg_vars, script, ctl_vars, eng_vars, file_vars, hist_vars>>

NextEscape == Makedirs("ok") \/ RunScript

SpecEscape == InitEscape /\ [][NextEscape]_vars

\* The Queued backend on an engine that another invocation of map uses too:
\* the other invocation started at clock tick t and its job 0 is in the queue,
\* running, pending or held in error, during the whole poll loop of this one.
other_record(t, state, list) ==
    [JB_name |-> _make_JB_name(_session_id_from_time_now(t), 0),
     JB_job_number |-> 0,
     list |-> list,
     state |-> state,
     arg |-> 0,
     owner |-> "other"]

OtherQueues ==
    {{other_record(t, r_state, "running")} : t \in 0 .. MaxTick}
    \cup {{other_record(t, st, "pending")} : t \in 0 .. MaxTick, st \in {qw, Eqw}}

InitShared ==
    /\ InitArgs({[key |-> <<"a">>, value |-> <<"n">>]}, OtherQueues)
    /\ max_num_resubmissions = 1
    /\ QSUB
    /\ keep_work_dir

SpecShared == InitShared /\ [][NextControlled]_vars

\* ================================================================ claims
SessionRecords(idx) == {r \in queue : r.JB_name = JB_names_in_session[idx + 1]}
LoopExited == pc \in {"collect", "done"} \/ (pc = "raised" /\ raised \in {"UnpicklingError", "FileNotFoundError"})

\* C1: in Queued mode, when the poll loop has ended and collection begins,
\* no job of the batch has a record (running, pending or error) left in
\* the engine: every index is resolved or was abandoned after a cancel.
C1_NothingQueuedAtCollection ==
    (QSUB /\ pc = "collect") => \A idx \in Indices : SessionRecords(idx) = {}

\* C2: in Queued mode, a job that was seen in error, stayed below
\* max_num_resubmissions and whose resubmitted attempt wrote its output
\* blob has its real result, not None, in the returned sequence.
C2_ClearedJobYieldsResult ==
    (QSUB /\ pc = "done") =>
        \A idx \in Indices :
            (/\ idx \in DOMAIN num_resubmissions_by_idx
             /\ num_resubmissions_by_idx[idx] < max_num_resubmissions
             /\ num_submits[idx] > 1
             /\ out_blob[idx] = "ok")
            => results[idx + 1] = return_value(idx)

\* C3: in Queued mode, a job whose every record was in an error state is,
\* when collection is over, resubmitted exactly max_num_resubmissions
\* times, not queued any more, and its result slot is None.
C3_PerpetualErrorResubmittedMaxTimes ==
    (QSUB /\ pc = "collect" /\ pos = num_jobs) =>
        \A idx \in Indices :
            ~healthy[idx] =>
                /\ num_submits[idx] = 1 + max_num_resubmissions
                /\ SessionRecords(idx) = {}
                /\ results[idx + 1] = None

\* C4: when map returns, results has exactly num_jobs entries and entry idx
\* is the decoded output blob of idx if the collector found that blob, and
\* None otherwise; with the Direct backend, whose files do not change after
\* submission, entry idx matches the blob that is in the kept work directory.
C4_ResultsInInputOrder ==
    (pc = "done") =>
        /\ Len(results) = num_jobs
        /\ \A idx \in Indices :
               results[idx + 1] = IF read_blob[idx + 1] = "ok"
                                  THEN return_value(idx) ELSE None
        /\ (~QSUB /\ work_dir_exists) =>
               \A idx \in Indices :
                   results[idx + 1] = IF out_blob[idx] = "ok"
                                      THEN return_value(idx) ELSE None

\* two jobs, the first without output blob and the second with one, returned
C4_Witness ==
    /\ pc = "done"
    /\ num_jobs >= 2
    /\ results[1] = None
    /\ results[2] = return_value(1)

\* C5: whatever the jobs did (error, Lost, never started, crashed without
\* output), map raises only for environment-level problems: a work
\* directory it cannot create, a failed submit call, an interrupt.
C5_RaisesOnlyForEnvironment ==
    (pc = "raised" /\ \A idx \in Indices : out_blob[idx] # "corrupt") =>
        raised \in {"FileExistsError", "CalledProcessError", "KeyboardInterrupt"}

\* C6: an output blob that exists but cannot be decoded gives None in its
\* slot, like a missing one, and map does not raise because of it.
C6_CorruptBlobTreatedAsMissing ==
    /\ raised # "UnpicklingError"
    /\ \A k \in 1 .. Len(read_blob) :
           read_blob[k] = "corrupt" => (Len(results) >= k /\ results[k] = None)

\* C7: against the controlled engine the poll loop ends and map reaches
\* result collection, also with jobs that fail permanently; a poll cycle
\* whose status query shows no running and no pending job of the session
\* is the last one.
C7_PollLoopTerminates ==
    /\ <>LoopExited
    /\ [][(pc = "sleep" /\ num_running = 0 /\ num_pending = 0 /\ pc' # pc)
              => pc' = "collect"]_vars

\* the loop ended although a job was in error until it was abandoned
C7_Witness ==
    /\ pc = "collect"
    /\ max_num_resubmissions >= 1
    /\ \E idx \in Indices :
           /\ ~healthy[idx]
           /\ num_submits[idx] = 1 + max_num_resubmissions
           /\ SessionRecords(idx) = {}

\* C8: a status query or a cancel that fails is never raised to the caller:
\* the thread sleeps, repeats the same call, and neither the resubmission
\* counters nor the position in jobs_error change until the call succeeds.
C8_FailedCallsAreRetried ==
    /\ [](raised # "Exception")
    /\ [][/\ (pc = "qstat" /\ pc' \notin {"qstat", "for_error"} /\ ~interrupted')
              => pc' = "qstat_sleep"
          /\ (pc = "qdel" /\ pc' \notin {"qdel", "resubmit"} /\ ~interrupted')
              => pc' = "qdel_sleep"
          /\ (pc = "qstat_sleep" /\ pc' # pc /\ ~interrupted') => pc' = "qstat"
          /\ (pc = "qdel_sleep" /\ pc' # pc /\ ~interrupted') => pc' = "qdel"
          /\ (pc \in {"qstat_sleep", "qdel_sleep"} \/ pc' \in {"qstat_sleep", "qdel_sleep"})
              => UNCHANGED <<num_resubmissions_by_idx, jobs_error, err_pos,
                             num_running, num_pending, still_running, num_submits>>
         ]_vars

\* a cancel failed while the job it was issued for is still in the queue
C8_Witness ==
    /\ pc = "qdel_sleep"
    /\ raised = "none"
    /\ \E r \in queue : r.JB_job_number = jobs_error[err_pos].JB_job_number

\* C9: a KeyboardInterrupt delivered during a status query, a cancel, a
\* backoff sleep or the poll sleep leaves map at once, and the controller
\* issues no status query, cancel or submission after it.
C9_InterruptPropagates ==
    /\ [](interrupted => (pc = "raised" /\ raised = "KeyboardInterrupt"))
    /\ [][interrupted => UNCHANGED <<ctl_vars, num_submits, next_job_number>>]_vars

\* the interrupt arrived while jobs of the batch were still queued
C9_Witness ==
    /\ interrupted
    /\ pc = "raised"
    /\ queue # {}

\* C10: at the step with which map returns, the work directory is kept if
\* and only if keep_work_dir is set or a stderr file has non-zero size;
\* a work directory that was created is removed only by that step, after
\* all num_jobs result slots were collected.
C10_WorkDirKeptIffStderrOrKeep ==
    /\ [][(pc = "collect" /\ pc' = "done") =>
             (work_dir_exists' <=>
                 (keep_work_dir \/ \E idx \in Indices : stderr_file[idx] = "nonzero"))
         ]_vars
    /\ []((pc \notin {"makedirs"} /\ raised # "FileExistsError" /\ ~work_dir_exists)
             => (pc = "done" /\ Len(results) = num_jobs))

\* map returned and kept the work directory only because of a stderr file
C10_Witness ==
    /\ pc = "done"
    /\ work_dir_exists
    /\ ~keep_work_dir
    /\ num_jobs >= 2
    /\ stderr_file[num_jobs - 1] = "empty"

PollPositions == {"qstat", "qstat_sleep", "for_error", "qdel", "qdel_sleep", "resubmit", "sleep"}

\* C11: with the Direct backend the poll loop is never entered and the
\* engine is never asked to submit, list or cancel anything; each job is
\* run exactly once, in index order, and the worker of idx has ended (its
\* files are closed) before the next one is started; a job whose worker
\* wrote its output blob has its real result in the slot of its index.
C11_DirectBackendIsSequential ==
    ~QSUB =>
        /\ pc \notin PollPositions
        /\ queue = {}
        /\ next_job_number = 1
        /\ num_resubmissions_by_idx = <<>>
        /\ jobs_error = <<>>
        /\ \A idx \in Indices :
               /\ num_submits[idx] =
                      IF \/ pc = "makedirs"
                         \/ raised = "FileExistsError"
                         \/ (pc = "submit" /\ idx >= pos)
                      THEN 0 ELSE 1
               /\ (pc = "submit" /\ idx < pos) => stderr_file[idx] \in {"empty", "nonzero"}
               /\ (pc = "submit" /\ idx >= pos) =>
                      (out_blob[idx] = "absent" /\ stderr_file[idx] = "absent")
               /\ (pc = "collect" /\ idx < pos /\ out_blob[idx] = "ok")
                      => results[idx + 1] = return_value(idx)

\* two jobs went through the Direct backend and both results came back
C11_Witness ==
    /\ ~QSUB
    /\ pc = "done"
    /\ num_jobs = 2
    /\ results = <<return_value(0), return_value(1)>>
    /\ num_submits = [idx \in Indices |-> 1]

RECURSIVE SumUpTo(_, _)
SumUpTo(f, n) == IF n = 0 THEN 0 ELSE f[n - 1] + SumUpTo(f, n - 1)

\* the submit calls the engine did not accept: every accepted one took a job number
FailedSubmits == SumUpTo(num_submits, num_jobs) - (next_job_number - 1)

\* C12: in Queued mode a submit call that fails, the first one of an index
\* or a resubmission, ends map with CalledProcessError at once: at most one
\* submit call fails in a run, none is repeated, and no submit call follows it.
C12_FailedSubmissionIsFatal ==
    QSUB =>
        /\ FailedSubmits \in {0, 1}
        /\ (FailedSubmits = 1) <=> (raised = "CalledProcessError")
        /\ (raised = "CalledProcessError") => pc = "raised"

\* a resubmission failed while another job of the batch was still queued
C12_Witness ==
    /\ QSUB
    /\ raised = "CalledProcessError"
    /\ pc = "raised"
    /\ queue # {}
    /\ \E idx \in Indices : num_submits[idx] >= 2 /\ SessionRecords(idx) = {}

\* C13: for every key and value over the alphabet, the worker that executes
\* the generated environ line gets exactly the key and the value map was
\* given, and each generated literal is one complete string literal.
C13_EscapingIsLossless ==
    worker_environ.ran =>
        /\ worker_environ.ok
        /\ worker_environ.key = environ.key
        /\ worker_environ.value = environ.value

\* C14: in Queued mode the resubmission counter of an index never exceeds
\* max_num_resubmissions; below the maximum the index has been submitted
\* once or twice more often than the counter says, and at the maximum
\* exactly 1 + max_num_resubmissions times: there the job is neither
\* resubmitted nor counted again.
C14_CounterBoundedByMaximum ==
    QSUB =>
        \A idx \in DOMAIN num_resubmissions_by_idx :
            /\ num_resubmissions_by_idx[idx] \in 0 .. max_num_resubmissions
            /\ num_submits[idx] - num_resubmissions_by_idx[idx] \in {1, 2}
            /\ (num_resubmissions_by_idx[idx] = max_num_resubmissions)
                   => num_submits[idx] = 1 + max_num_resubmissions

\* a job was resubmitted, reached the maximum, was cancelled and abandoned,
\* and the controller went through a later poll cycle
C14_Witness ==
    /\ QSUB
    /\ pc = "for_error"
    /\ max_num_resubmissions >= 1
    /\ jobs_error = <<>>
    /\ \E idx \in DOMAIN num_resubmissions_by_idx :
           /\ num_resubmissions_by_idx[idx] = max_num_resubmissions
           /\ SessionRecords(idx) = {}

\* the cancel step ends and the thread is at the resubmission decision
CancelGoesOn == \E o \in CallOutcomes : Qdel(o) /\ pc' = "resubmit"

\* C15: whenever the controller is at the cancel of a job of jobs_error,
\* also when the engine no longer knows the job number, the cancel step can
\* end and the controller can go on to the resubmission decision.
C15_CancelOfUnknownJobGoesOn ==
    (pc = "qdel") => ENABLED CancelGoesOn

\* a record whose external name is not a name of this session
Unrelated(r) == r.JB_name \notin JB_names_in_session_set

\* the records of this session's names that qstat lists in lst without error
NamedInSession(lst) ==
    {r \in queue : ~Unrelated(r) /\ r.list = lst
                    /\ ~InState(error_state_indicator, r.state)}

\* C16: in every poll cycle the running and pending counts are those of the
\* records named in this session and jobs_error holds only such records;
\* a record with another name is never removed from the queue, a
\* submission after the first ones is issued only for a record of
\* jobs_error named in this session, and the loop ends after the cycle
\* whose counts of running and pending are zero, whatever else is queued.
C16_UnrelatedRecordsAreIgnored ==
    /\ [][(pc = "qstat" /\ pc' = "for_error") =>
              /\ num_running' = Cardinality(NamedInSession("running"))
              /\ num_pending' = Cardinality(NamedInSession("pending"))
              /\ \A k \in 1 .. Len(jobs_error') : ~Unrelated(jobs_error'[k])
         ]_vars
    /\ [][\A r \in queue : Unrelated(r) => r \in queue']_vars
    /\ [][(next_job_number' # next_job_number /\ pc # "submit") =>
              (pc = "resubmit" /\ ~Unrelated(jobs_error[err_pos]))]_vars
    /\ [][(pc = "sleep" /\ num_running = 0 /\ num_pending = 0 /\ pc' # pc)
              => pc' = "collect"]_vars

\* the poll loop was left, after a resubmission, while a record of the other
\* invocation, in any state and under another name, was still in the queue
C16_Witness ==
    /\ pc = "collect"
    /\ num_jobs >= 1
    /\ next_job_number > num_jobs + 1
    /\ \E r \in queue : r.owner = "other" /\ Unrelated(r)

\* C17: an invocation never has a job of another invocation, whenever that
\* one started, in its jobs_error, the list of the jobs it counts as failed,
\* cancels and resubmits, and never cancels a record of the other one.
C17_InvocationsNeverInterfere ==
    /\ \A k \in 1 .. Len(jobs_error) : jobs_error[k].owner = "session"
    /\ \E r \in queue : r.owner = "other"

\* C18: every record the engine holds for this session, from a first
\* submission or from a resubmission, carries the external name the first
\* submission of its index was issued under and the input blob of that
\* index, and the index parsed back from its name is that index; this
\* round trip also holds for indices of nine and of ten digits (the names
\* are made before the work directory is).  The
\* backend does not change: with the Direct backend the engine is never
\* given a job, with the Queued one only the engine's workers write files.
C18_ResubmissionKeepsIdentity ==
    /\ \A r \in queue :
           /\ r.arg \in Indices
           /\ r.JB_name = JB_names_in_session[r.arg + 1]
           /\ _idx_from_JB_name(r.JB_name) = r.arg
    /\ (pc = "makedirs") =>
           \A idx \in {0, 9, 10, 123456789, 999999999, 1000000000} :
               _idx_from_JB_name(_make_JB_name(session_id, idx)) = idx
    /\ ~QSUB => next_job_number = 1
    /\ QSUB => \A idx \in Indices :
                   ~healthy[idx] => (out_blob[idx] = "absent" /\ stderr_file[idx] = "absent")

\* the record of a resubmission is in the queue, next to another job
C18_Witness ==
    /\ QSUB
    /\ \E r \in queue :
           /\ num_submits[r.arg] >= 2
           /\ r.JB_job_number > num_jobs
           /\ r.arg = 1

\* the index of the job of jobs_error the for loop is at
idx_at_err_pos == _idx_from_JB_name(jobs_error[err_pos].JB_name)

\* C19: in Queued mode the controller is at the resubmission decision of a
\* job of jobs_error only when the job number it was listed under is gone
\* from the queue; a job that reached the maximum has no record left once
\* its cancel is done; the engine never holds two records under one name
\* of the session.
C19_CancelBeforeResubmission ==
    QSUB =>
        /\ (pc = "resubmit") =>
               \A r \in queue : r.JB_job_number # jobs_error[err_pos].JB_job_number
        /\ \A idx \in Indices : Cardinality(SessionRecords(idx)) <= 1
        /\ \A idx \in DOMAIN num_resubmissions_by_idx :
               (/\ num_resubmissions_by_idx[idx] = max_num_resubmissions
                /\ pc # "raised"
                /\ ~(pc \in {"qdel", "qdel_sleep"} /\ idx_at_err_pos = idx))
               => SessionRecords(idx) = {}

\* the cancel of a job at its maximum succeeded, the job is about to be
\* abandoned, and another job of the batch is queued
C19_Witness ==
    /\ QSUB
    /\ pc = "resubmit"
    /\ max_num_resubmissions >= 1
    /\ num_resubmissions_by_idx[idx_at_err_pos] = max_num_resubmissions
    /\ queue # {}

\* C20: in Queued mode no index is ever submitted more often than
\* 1 + max_num_resubmissions times, every index has been submitted at
\* least once when the first submissions are through, and a submit call
\* outside the first submissions is issued for the index of the job of
\* jobs_error, the error bucket of the current poll cycle, the loop is at.
C20_SubmitCallsPerIndex ==
    /\ [](QSUB =>
             \A idx \in Indices :
                 /\ num_submits[idx] <= 1 + max_num_resubmissions
                 /\ (pc \in PollPositions \cup {"collect", "done"}) => num_submits[idx] >= 1)
    /\ [][QSUB =>
             \A idx \in Indices :
                 (num_submits'[idx] # num_submits[idx] /\ pc # "submit") =>
                     /\ pc = "resubmit"
                     /\ idx_at_err_pos = idx
                     /\ InState(error_state_indicator, jobs_error[err_pos].state)
                     /\ num_submits[idx] >= 1
         ]_vars

\* map returned after one index was submitted 1 + max_num_resubmissions times
C20_Witness ==
    /\ QSUB
    /\ pc = "done"
    /\ max_num_resubmissions >= 1
    /\ num_jobs = 2
    /\ num_submits[0] = 1
    /\ num_submits[1] = 1 + max_num_resubmissions

====
